---- MODULE Spec2Model ----
(***************************************************************************)
(* TalentUp: the authentication context (AuthProvider) and the company     *)
(* profile page (CompanyProfile) over the hosted backend.                   *)
(*                                                                         *)
(* A nullable JavaScript value is a set with at most one element: {} is    *)
(* null, {v} is the value v.  An object literal sent to the backend is a   *)
(* function from column names to nullable values; a key whose value is     *)
(* undefined is not in its domain (it is dropped when the body is          *)
(* serialised), so the backend leaves that column alone.                   *)
(*                                                                         *)
(* One action is one synchronous run of a handler or of the continuation   *)
(* after an await; React 18 batches the state updates of such a run into   *)
(* one render, so the run is one step.                                     *)
(***************************************************************************)
EXTENDS Integers, Sequences, FiniteSets, TLC

\* ------------------------------------------------------------------ bounds
MaxCalls == 2          \* signUp / signIn / resendConfirmation invocations in one run
MaxUploads == 1        \* logo files uploaded in one run
MaxLoads == 1          \* profile loads in flight at once

\* ------------------------------------------------------------- value space
Null == {}
Some(v) == {v}
Get(o) == CHOOSE v \in o : TRUE

Users == {"u1", "u2"}
NoRole == "none"

\* session.user.user_metadata.role of each account (u2 signed up without one)
UserMetadata == [u \in Users |-> IF u = "u1" THEN "company" ELSE NoRole]
UserOf(u) == [id |-> u, role |-> UserMetadata[u]]
Sessions == {[user |-> UserOf(u)] : u \in Users}

\* rows of the backend's profiles table (created by the backend at sign-up)
ProfilesTable == [u \in Users |->
    Some([id |-> IF u = "u1" THEN "p1" ELSE "p2", user_id |-> u,
          role |-> IF u = "u1" THEN "company" ELSE "developer"])]

GenericError == <<"request failed">>
ResendErrors == {<<"For security purposes", "you can only request this later">>,
                 <<"email", "rate limit", "exceeded">>,
                 GenericError}
NoToast == <<>>
Toast(title, variant) == [title |-> title, variant |-> variant]
\* the data of a backend answer, as far as a handler looks at it
NoData == [user |-> FALSE, session |-> FALSE]
Call(name, error, toasts, ret) ==
    [call |-> name, error |-> error, data |-> NoData, toasts |-> toasts,
     ret |-> ret]

AuthOps == {"signUp", "signIn", "resend"}

VARIABLES
    user, session, profile, loading,     \* AuthProvider state
    getSessionPending,                   \* getSession() promise not yet resolved
    fetchTimers, fetching,               \* deferred / in-flight fetchProfile(userId)
    signOutPending,                      \* signOut awaiting the backend
    authPending, invoked, authCalls,     \* signUp / signIn / resendConfirmation
    lastCall,                            \* last backend answer or notification handled, and what it led to
    companies,                           \* the backend's companies table
    companyProfile, pageLoading, uploading,   \* CompanyProfile state (profile, loading, uploading)
    form, formErrors,                    \* react-hook-form values and formState.errors
    loads,                               \* loadProfile calls awaiting their select
    logoOp, submitOp,                    \* handleLogoChange / onSubmit in progress
    uploads                              \* files stored so far (names the next public URL)

authVars == <<user, session, profile, loading, getSessionPending, fetchTimers,
              fetching, signOutPending, authPending, invoked, authCalls>>
pageVars == <<companies, companyProfile, pageLoading, uploading, form, formErrors,
              loads, logoOp, submitOp, uploads>>
vars == <<authVars, lastCall, pageVars>>

\* ------------------------------------------------------------ AuthProvider
TempProfile(u) == [id |-> "", user_id |-> u.id, role |-> u.role]

InitAuth ==
    /\ user = Null /\ session = Null /\ profile = Null
    /\ loading = TRUE
    /\ getSessionPending = TRUE
    /\ fetchTimers = {} /\ fetching = {}
    /\ signOutPending = FALSE
    /\ authPending = {}
    /\ invoked = 0
    /\ authCalls = 0

\* AuthStateChange without the temporary profile
AuthStateChangeNoTemp(s) ==
    /\ session' = s
    /\ user' = IF s # Null THEN Some(Get(s).user) ELSE Null
    /\ IF s # Null
       THEN /\ profile' = profile
            /\ fetchTimers' = fetchTimers \cup {Get(s).user.id}
       ELSE /\ profile' = Null
            /\ fetchTimers' = fetchTimers
    /\ loading' = FALSE
    /\ lastCall' = Call("onAuthStateChange", Null, NoToast, Null)
    /\ UNCHANGED <<getSessionPending, fetching, signOutPending, authPending,
                   invoked, authCalls>>

\* supabase.auth.onAuthStateChange callback; s is the delivered session or Null
AuthStateChange(s) ==
    /\ session' = s
    /\ user' = IF s # Null THEN Some(Get(s).user) ELSE Null
    /\ IF s # Null
       THEN /\ profile' = IF Get(s).user.role # NoRole
                          THEN Some(TempProfile(Get(s).user))
                          ELSE profile
            /\ fetchTimers' = fetchTimers \cup {Get(s).user.id}
       ELSE /\ profile' = Null
            /\ fetchTimers' = fetchTimers
    /\ loading' = FALSE
    /\ lastCall' = Call("onAuthStateChange", Null, NoToast, Null)
    /\ UNCHANGED <<getSessionPending, fetching, signOutPending, authPending,
                   invoked, authCalls>>

\* supabase.auth.getSession().then(...), once after mount
GetSessionResult(s) ==
    /\ getSessionPending
    /\ getSessionPending' = FALSE
    /\ session' = s
    /\ user' = IF s # Null THEN Some(Get(s).user) ELSE Null
    /\ IF s # Null
       THEN /\ profile' = IF Get(s).user.role # NoRole
                          THEN Some(TempProfile(Get(s).user))
                          ELSE profile
            /\ fetchTimers' = fetchTimers \cup {Get(s).user.id}
       ELSE /\ profile' = profile
            /\ fetchTimers' = fetchTimers
    /\ loading' = FALSE
    /\ lastCall' = Call("getSession", Null, NoToast, Null)
    /\ UNCHANGED <<fetching, signOutPending, authPending, invoked, authCalls>>

\* the setTimeout(..., 0) callback: fetchProfile(userId) sends its select
FetchProfileStart(u) ==
    /\ u \in fetchTimers
    /\ fetchTimers' = fetchTimers \ {u}
    /\ fetching' = fetching \cup {u}
    /\ UNCHANGED <<user, session, profile, loading, getSessionPending,
                   signOutPending, authPending, invoked, authCalls, lastCall>>

\* fetchProfile after its await: error is logged to the console only
FetchProfileDone(u, error) ==
    /\ u \in fetching
    /\ fetching' = fetching \ {u}
    /\ profile' = IF error # Null THEN profile ELSE ProfilesTable[u]
    /\ lastCall' = Call("fetchProfile", error, NoToast, Null)
    /\ UNCHANGED <<user, session, loading, getSessionPending, fetchTimers,
                   signOutPending, authPending, invoked, authCalls>>

\* signOut up to its await
SignOut ==
    /\ ~signOutPending
    /\ signOutPending' = TRUE
    /\ UNCHANGED <<user, session, profile, loading, getSessionPending,
                   fetchTimers, fetching, authPending, invoked, authCalls,
                   lastCall>>

\* SignOutDone without setSession(null)
SignOutDoneKeepsSession(error) ==
    /\ signOutPending
    /\ signOutPending' = FALSE
    /\ user' = Null
    /\ profile' = Null
    /\ lastCall' = Call("signOut", error, NoToast, Null)
    /\ UNCHANGED <<session, loading, getSessionPending, fetchTimers, fetching,
                   authPending, invoked, authCalls>>

\* signOut after its await: the returned { error } is not looked at
SignOutDone(error) ==
    /\ signOutPending
    /\ signOutPending' = FALSE
    /\ user' = Null
    /\ session' = Null
    /\ profile' = Null
    /\ lastCall' = Call("signOut", error, NoToast, Null)
    /\ UNCHANGED <<loading, getSessionPending, fetchTimers, fetching,
                   authPending, invoked, authCalls>>

\* signUp / signIn / resendConfirmation up to the await of their one auth call
AuthInvoke(op) ==
    /\ op \notin authPending
    /\ invoked < MaxCalls
    /\ authPending' = authPending \cup {op}
    /\ invoked' = invoked + 1
    /\ authCalls' = authCalls + 1
    /\ UNCHANGED <<user, session, profile, loading, getSessionPending,
                   fetchTimers, fetching, signOutPending, lastCall>>

SignUpResults ==
    {[error |-> Some(GenericError), user |-> FALSE, session |-> FALSE],
     [error |-> Null, user |-> TRUE, session |-> FALSE],
     [error |-> Null, user |-> TRUE, session |-> TRUE],
     [error |-> Null, user |-> FALSE, session |-> FALSE]}

\* what signUp did with the answer res of supabase.auth.signUp
SignUpCall(res, toasts, ret) ==
    [Call("signUp", res.error, toasts, ret) EXCEPT
        !.data = [user |-> res.user, session |-> res.session]]

\* SignUpDone that returns { error: null } for an email already registered
SignUpDoneNoErrorOnExisting(res) ==
    /\ "signUp" \in authPending
    /\ authPending' = authPending \ {"signUp"}
    /\ lastCall' =
         IF res.error # Null
         THEN SignUpCall(res, <<Toast("Error en el registro", "destructive")>>,
                         res.error)
         ELSE IF res.user /\ ~res.session
         THEN SignUpCall(res, <<Toast("Email ya registrado", "destructive")>>, Null)
         ELSE SignUpCall(res, <<Toast("Registro exitoso", "default")>>, Null)
    /\ UNCHANGED <<user, session, profile, loading, getSessionPending,
                   fetchTimers, fetching, signOutPending, invoked, authCalls>>

\* signUp after its await (the success title is written without its
\* exclamation marks)
SignUpDone(res) ==
    /\ "signUp" \in authPending
    /\ authPending' = authPending \ {"signUp"}
    /\ lastCall' =
         IF res.error # Null
         THEN SignUpCall(res, <<Toast("Error en el registro", "destructive")>>,
                         res.error)
         ELSE IF res.user /\ ~res.session
         THEN SignUpCall(res, <<Toast("Email ya registrado", "destructive")>>,
                         Some(<<"Email ya registrado">>))
         ELSE SignUpCall(res, <<Toast("Registro exitoso", "default")>>, Null)
    /\ UNCHANGED <<user, session, profile, loading, getSessionPending,
                   fetchTimers, fetching, signOutPending, invoked, authCalls>>

\* SignInDone that clears the local user, session and profile on a failed login
SignInDoneClearsUser(error) ==
    /\ "signIn" \in authPending
    /\ authPending' = authPending \ {"signIn"}
    /\ lastCall' =
         Call("signIn", error,
              IF error # Null THEN <<Toast("Error en el login", "destructive")>>
                              ELSE NoToast,
              error)
    /\ IF error # Null
       THEN user' = Null /\ session' = Null /\ profile' = Null
       ELSE UNCHANGED <<user, session, profile>>
    /\ UNCHANGED <<loading, getSessionPending, fetchTimers, fetching,
                   signOutPending, invoked, authCalls>>

\* signIn after its await
SignInDone(error) ==
    /\ "signIn" \in authPending
    /\ authPending' = authPending \ {"signIn"}
    /\ lastCall' =
         Call("signIn", error,
              IF error # Null THEN <<Toast("Error en el login", "destructive")>>
                              ELSE NoToast,
              error)
    /\ UNCHANGED <<user, session, profile, loading, getSessionPending,
                   fetchTimers, fetching, signOutPending, invoked, authCalls>>

\* error.message.includes(pattern), on messages split into phrases
Includes(message, pattern) == \E i \in 1..Len(message) : message[i] = pattern

\* ResendConfirmationDone that only looks for 'rate limit'
ResendConfirmationDoneOnePattern(error) ==
    /\ "resend" \in authPending
    /\ authPending' = authPending \ {"resend"}
    /\ lastCall' =
         IF error # Null
         THEN IF Includes(Get(error), "rate limit")
              THEN Call("resend", error,
                        <<Toast("Espera un momento", "default")>>, error)
              ELSE Call("resend", error,
                        <<Toast("Error al reenviar", "destructive")>>, error)
         ELSE Call("resend", Null, <<Toast("Email reenviado", "default")>>, Null)
    /\ UNCHANGED <<user, session, profile, loading, getSessionPending,
                   fetchTimers, fetching, signOutPending, invoked, authCalls>>

\* resendConfirmation after its await
ResendConfirmationDone(error) ==
    /\ "resend" \in authPending
    /\ authPending' = authPending \ {"resend"}
    /\ lastCall' =
         IF error # Null
         THEN IF \/ Includes(Get(error), "For security purposes")
                 \/ Includes(Get(error), "rate limit")
              THEN Call("resend", error,
                        <<Toast("Espera un momento", "default")>>, error)
              ELSE Call("resend", error,
                        <<Toast("Error al reenviar", "destructive")>>, error)
         ELSE Call("resend", Null, <<Toast("Email reenviado", "default")>>, Null)
    /\ UNCHANGED <<user, session, profile, loading, getSessionPending,
                   fetchTimers, fetching, signOutPending, invoked, authCalls>>

Errors == {Null, Some(GenericError)}

\* --------------------------------------------------------- CompanyProfile
Letters == {"a", "b", "c"}
Range(f) == {f[i] : i \in DOMAIN f}
SubSeqFrom(e, k) == SubSeq(e, k, Len(e))
Labels(d) ==
    \* the maximal dot-free pieces of d, as pairs <<first, last>>
    {<<i, j>> \in (1..Len(d)) \X (1..Len(d)) :
        /\ i <= j
        /\ \A k \in i..j : d[k] # "."
        /\ (i = 1 \/ d[i - 1] = ".")
        /\ (j = Len(d) \/ d[j + 1] = ".")}

\* z.string().email(): one "@"; a local part that neither starts nor ends with
\* a dot; no two dots in a row; a domain of dot-separated non-empty labels, at
\* least two, the last of two letters or more
IsEmail(e) ==
    /\ Cardinality({k \in 1..Len(e) : e[k] = "@"}) = 1
    /\ LET at == CHOOSE k \in 1..Len(e) : e[k] = "@"
           local == SubSeq(e, 1, at - 1)
           domain == SubSeqFrom(e, at + 1)
       IN  /\ Len(local) >= 1
           /\ local[1] # "."
           /\ local[Len(local)] # "."
           /\ \A k \in 1..(Len(e) - 1) : ~(e[k] = "." /\ e[k + 1] = ".")
           /\ Range(local) \subseteq Letters \cup {"."}
           /\ Len(domain) >= 1
           /\ Range(domain) \subseteq Letters \cup {"."}
           /\ domain[1] # "."
           /\ domain[Len(domain)] # "."
           /\ Cardinality(Labels(domain)) >= 2
           /\ \E l \in Labels(domain) : l[2] = Len(domain) /\ l[2] - l[1] + 1 >= 2

MinNameLen == 2

\* companyProfileSchema with name min(1)
companyProfileSchemaMin1(data) ==
    (IF Len(data.name) >= 1 THEN {} ELSE {"name"})
    \cup (IF IsEmail(data.contact_email) THEN {} ELSE {"contact_email"})

\* companyProfileSchema: the set of fields that fail
companyProfileSchema(data) ==
    (IF Len(data.name) >= MinNameLen THEN {} ELSE {"name"})
    \cup (IF IsEmail(data.contact_email) THEN {} ELSE {"contact_email"})

GoodEmail == <<"a", "@", "b", ".", "c", "c">>
BadEmails == {<<>>, <<"a", "@", "b">>, <<"a", "b", ".", "c", "c">>,
              <<"a", "@", "b", ".", "c">>}
FormData(n, e, d, s) ==
    [name |-> n, contact_email |-> e, description |-> d, sector |-> s]
DefaultValues == FormData("", <<>>, "", "")

\* what the user types into the form
FormInputs ==
    {FormData("", GoodEmail, "", ""),
     FormData("a", GoodEmail, "", ""),
     FormData("ab", GoodEmail, "", ""),
     FormData("abc", GoodEmail, "d", "s")}
    \cup {FormData("ab", e, "", "") : e \in BadEmails}
\* the one valid input of the runs that follow the backend record
PageInputs == {FormData("ab", GoodEmail, "d", "")}
\* the account that uses the page in those runs
PageSessions == {[user |-> UserOf("u1")]}

Columns == {"name", "contact_email", "description", "sector", "logo_url"}
Row(uid, n, e, d, s, l) ==
    [user_id |-> uid, name |-> n, contact_email |-> e, description |-> d,
     sector |-> s, logo_url |-> l]
PublicUrl(uid, n) == [owner |-> uid, file |-> n]

\* x || '' and x || null on a nullable string
OrEmpty(o) == IF o = Null THEN "" ELSE Get(o)
OrEmptySeq(o) == IF o = Null THEN <<>> ELSE Get(o)
OrNull(str) == IF str = "" THEN Null ELSE Some(str)

NoRequest == [key |-> "", user_id |-> "", cols |-> [c \in {} |-> Null]]
\* a handler in progress: the user, profile and data of its closure, the
\* request it has sent and the answer it got
IdleOp == [phase |-> "idle", uid |-> "", snap |-> Null, data |-> Null,
           url |-> Null, req |-> NoRequest, error |-> Null]

\* .update(values) without the .eq("user_id", key) filter
ApplyUpdateAllRows(table, req) ==
    [i \in DOMAIN table |->
        IF table[i] # Null
        THEN Some([c \in DOMAIN Get(table[i]) |->
                     IF c = "user_id" THEN req.user_id
                     ELSE IF c \in DOMAIN req.cols THEN req.cols[c]
                     ELSE Get(table[i])[c]])
        ELSE table[i]]

\* .update(values).eq("user_id", key) on the companies table
ApplyUpdate(table, req) ==
    [i \in DOMAIN table |->
        IF table[i] # Null /\ Get(table[i]).user_id = req.key
        THEN Some([c \in DOMAIN Get(table[i]) |->
                     IF c = "user_id" THEN req.user_id
                     ELSE IF c \in DOMAIN req.cols THEN req.cols[c]
                     ELSE Get(table[i])[c]])
        ELSE table[i]]

\* .select('*').eq('user_id', uid).maybeSingle()
SelectCompany(table, uid) ==
    LET hits == {i \in DOMAIN table : table[i] # Null /\ Get(table[i]).user_id = uid}
    IN  IF hits = {} THEN Null ELSE table[CHOOSE i \in hits : TRUE]

InitPage ==
    /\ \E rows \in SUBSET Users :
          /\ "u2" \in rows
          /\ companies = [u \in Users |->
                            IF u \in rows
                            THEN Some(Row(u, Null, Null, Null, Null, Null))
                            ELSE Null]
    /\ companyProfile = Null
    /\ pageLoading = FALSE
    /\ uploading = FALSE
    /\ form = DefaultValues
    /\ formErrors = {}
    /\ loads = {}
    /\ logoOp = IdleOp
    /\ submitOp = IdleOp
    /\ uploads = 0

\* a loadProfile call awaiting its select; reload marks the call made by onSubmit
Load(uid) == [uid |-> uid, phase |-> "sent", data |-> Null, error |-> Null,
              reload |-> FALSE]
Reload(uid) == [Load(uid) EXCEPT !.reload = TRUE]

\* useEffect(() => { if (user) loadProfile() }, [user]) after a change of user
UserEffect ==
    IF user' # user /\ user' # Null
    THEN /\ Cardinality(loads) < MaxLoads
         /\ loads' = loads \cup {Load(Get(user').id)}
    ELSE loads' = loads

\* the backend answers a loadProfile select
LoadProcess(l, error) ==
    /\ l \in loads /\ l.phase = "sent"
    /\ loads' = (loads \ {l}) \cup
                {[l EXCEPT !.phase = "answered", !.error = error,
                           !.data = IF error # Null THEN Null
                                    ELSE SelectCompany(companies, l.uid)]}
    /\ UNCHANGED <<companies, companyProfile, pageLoading, uploading, form,
                   formErrors, logoOp, submitOp, uploads, lastCall>>

\* loadProfile after its await
LoadDone(l) ==
    /\ l \in loads /\ l.phase = "answered"
    /\ loads' = loads \ {l}
    /\ IF l.error # Null
       THEN /\ lastCall' = Call(IF l.reload THEN "reloadProfile" ELSE "loadProfile",
                                l.error, <<Toast("Error", "destructive")>>, Null)
            /\ UNCHANGED <<companyProfile, form>>
       ELSE /\ lastCall' = Call(IF l.reload THEN "reloadProfile" ELSE "loadProfile",
                                Null, NoToast, Null)
            /\ IF l.data # Null
               THEN /\ companyProfile' = l.data
                    /\ form' = FormData(OrEmpty(Get(l.data).name),
                                        OrEmptySeq(Get(l.data).contact_email),
                                        OrEmpty(Get(l.data).description),
                                        OrEmpty(Get(l.data).sector))
               ELSE UNCHANGED <<companyProfile, form>>
    /\ UNCHANGED <<companies, pageLoading, uploading, formErrors, logoOp,
                   submitOp, uploads>>

\* the user edits the form fields
EditForm(f) ==
    /\ form' = f
    /\ UNCHANGED <<companies, companyProfile, pageLoading, uploading, formErrors,
                   loads, logoOp, submitOp, uploads, lastCall>>

\* handleLogoChange up to the await in uploadFile (the input is disabled
\* while uploading; without a user the handler returns at once)
HandleLogoChange ==
    /\ ~uploading
    /\ user # Null
    /\ uploads < MaxUploads
    /\ uploading' = TRUE
    /\ logoOp' = [IdleOp EXCEPT !.phase = "uploading", !.uid = Get(user).id,
                                !.snap = companyProfile]
    /\ UNCHANGED <<companies, companyProfile, pageLoading, form, formErrors,
                   loads, submitOp, uploads, lastCall>>

\* the object handleLogoChange passes to .update(): profile?.x is undefined,
\* and so left out, when the profile of the handler's render is null
LogoValues(snap, url) ==
    [c \in (IF snap = Null THEN {"logo_url"} ELSE Columns) |->
        IF c = "logo_url" THEN url ELSE Get(snap)[c]]

\* LogoUploadDone with setUploading(false) outside a finally block: skipped
\* when uploadFile throws
LogoUploadDoneNoFinally(error) ==
    /\ logoOp.phase = "uploading"
    /\ IF error # Null
       THEN /\ lastCall' = Call("logoUpload", error,
                                <<Toast("Error", "destructive")>>, Null)
            /\ logoOp' = IdleOp
            /\ uploads' = uploads
       ELSE /\ uploads' = uploads + 1
            /\ logoOp' = [logoOp EXCEPT
                 !.phase = "updating",
                 !.url = Some(PublicUrl(logoOp.uid, uploads + 1)),
                 !.req = [key |-> logoOp.uid, user_id |-> logoOp.uid,
                          cols |-> LogoValues(logoOp.snap,
                                     Some(PublicUrl(logoOp.uid, uploads + 1)))]]
            /\ lastCall' = lastCall
    /\ UNCHANGED <<companies, companyProfile, pageLoading, uploading, form,
                   formErrors, loads, submitOp>>

\* the storage upload answers; on success handleLogoChange sends its update
LogoUploadDone(error) ==
    /\ logoOp.phase = "uploading"
    /\ IF error # Null
       THEN /\ lastCall' = Call("logoUpload", error,
                                <<Toast("Error", "destructive")>>, Null)
            /\ uploading' = FALSE
            /\ logoOp' = IdleOp
            /\ uploads' = uploads
       ELSE /\ uploads' = uploads + 1
            /\ logoOp' = [logoOp EXCEPT
                 !.phase = "updating",
                 !.url = Some(PublicUrl(logoOp.uid, uploads + 1)),
                 !.req = [key |-> logoOp.uid, user_id |-> logoOp.uid,
                          cols |-> LogoValues(logoOp.snap,
                                     Some(PublicUrl(logoOp.uid, uploads + 1)))]]
            /\ UNCHANGED <<uploading, lastCall>>
    /\ UNCHANGED <<companies, companyProfile, pageLoading, form, formErrors,
                   loads, submitOp>>

\* the backend answers the update sent by handleLogoChange
LogoUpdateProcess(error) ==
    /\ logoOp.phase = "updating"
    /\ logoOp' = [logoOp EXCEPT !.phase = "updated", !.error = error]
    /\ companies' = IF error # Null THEN companies
                    ELSE ApplyUpdate(companies, logoOp.req)
    /\ UNCHANGED <<companyProfile, pageLoading, uploading, form, formErrors,
                   loads, submitOp, uploads, lastCall>>

\* handleLogoChange after the await of its update
LogoUpdateDone ==
    /\ logoOp.phase = "updated"
    /\ IF logoOp.error # Null
       THEN /\ lastCall' = Call("logoUpdate", logoOp.error,
                                <<Toast("Error", "destructive")>>, Null)
            /\ companyProfile' = companyProfile
       ELSE /\ lastCall' = Call("logoUpdate", Null,
                                <<Toast("Logo actualizado", "default")>>, Null)
            /\ companyProfile' =
                 IF companyProfile # Null
                 THEN Some([Get(companyProfile) EXCEPT !.logo_url = logoOp.url])
                 ELSE Null
    /\ uploading' = FALSE
    /\ logoOp' = IdleOp
    /\ UNCHANGED <<companies, pageLoading, form, formErrors, loads, submitOp,
                   uploads>>

\* profileData of onSubmit
SubmitValues(data, prof) ==
    [c \in (IF prof = Null THEN Columns \ {"logo_url"} ELSE Columns) |->
        CASE c = "name" -> Some(data.name)
          [] c = "contact_email" -> Some(data.contact_email)
          [] c = "description" -> OrNull(data.description)
          [] c = "sector" -> OrNull(data.sector)
          [] c = "logo_url" -> Get(prof).logo_url]

\* onSubmit up to its await
onSubmit(data) ==
    IF user = Null
    THEN UNCHANGED <<pageLoading, submitOp>>
    ELSE /\ pageLoading' = TRUE
         /\ submitOp' = [IdleOp EXCEPT
              !.phase = "updating", !.uid = Get(user).id,
              !.snap = companyProfile, !.data = Some(data),
              !.req = [key |-> Get(user).id, user_id |-> Get(user).id,
                       cols |-> SubmitValues(data, companyProfile)]]

\* handleSubmit(onSubmit): the submit button is disabled while loading or
\* uploading; the resolver decides whether onSubmit runs
HandleSubmit ==
    /\ ~(pageLoading \/ uploading)
    /\ formErrors' = companyProfileSchema(form)
    /\ IF companyProfileSchema(form) = {}
       THEN onSubmit(form)
       ELSE UNCHANGED <<pageLoading, submitOp>>
    /\ UNCHANGED <<companies, companyProfile, uploading, form, loads, logoOp,
                   uploads, lastCall>>

\* the backend answers the update sent by onSubmit
SubmitUpdateProcess(error) ==
    /\ submitOp.phase = "updating"
    /\ submitOp' = [submitOp EXCEPT !.phase = "updated", !.error = error]
    /\ companies' = IF error # Null THEN companies
                    ELSE ApplyUpdate(companies, submitOp.req)
    /\ UNCHANGED <<companyProfile, pageLoading, uploading, form, formErrors,
                   loads, logoOp, uploads, lastCall>>

\* SubmitUpdateDone that reloads the profile after a failed update too
SubmitUpdateDoneReloadsOnError ==
    /\ submitOp.phase = "updated"
    /\ Cardinality(loads) < MaxLoads
    /\ lastCall' = IF submitOp.error # Null
                   THEN Call("submit", submitOp.error,
                             <<Toast("Error", "destructive")>>, Null)
                   ELSE Call("submit", Null,
                             <<Toast("Perfil actualizado", "default")>>, Null)
    /\ loads' = loads \cup {Reload(submitOp.uid)}
    /\ pageLoading' = FALSE
    /\ submitOp' = IdleOp
    /\ UNCHANGED <<companies, companyProfile, uploading, form, formErrors,
                   logoOp, uploads>>

\* onSubmit after its await; loadProfile() runs up to its own await
SubmitUpdateDone ==
    /\ submitOp.phase = "updated"
    /\ IF submitOp.error # Null
       THEN /\ lastCall' = Call("submit", submitOp.error,
                                <<Toast("Error", "destructive")>>, Null)
            /\ loads' = loads
       ELSE /\ Cardinality(loads) < MaxLoads
            /\ lastCall' = Call("submit", Null,
                                <<Toast("Perfil actualizado", "default")>>, Null)
            /\ loads' = loads \cup {Reload(submitOp.uid)}
    /\ pageLoading' = FALSE
    /\ submitOp' = IdleOp
    /\ UNCHANGED <<companies, companyProfile, uploading, form, formErrors,
                   logoOp, uploads>>

\* an auth-state notification reaches the provider while the page is mounted
PageAuthStateChange(s) ==
    /\ AuthStateChange(s)
    /\ UserEffect
    /\ UNCHANGED <<companies, companyProfile, pageLoading, uploading, form,
                   formErrors, logoOp, submitOp, uploads>>

NextPage ==
    \/ \E s \in {Null} \cup {Some(x) : x \in PageSessions} : PageAuthStateChange(s)
    \/ \E l \in loads, e \in Errors : LoadProcess(l, e) /\ UNCHANGED authVars
    \/ \E l \in loads : LoadDone(l) /\ UNCHANGED authVars
    \/ \E f \in PageInputs : EditForm(f) /\ UNCHANGED authVars
    \/ HandleLogoChange /\ UNCHANGED authVars
    \/ \E e \in Errors : LogoUploadDone(e) /\ UNCHANGED authVars
    \/ \E e \in Errors : LogoUpdateProcess(e) /\ UNCHANGED authVars
    \/ LogoUpdateDone /\ UNCHANGED authVars
    \/ HandleSubmit /\ UNCHANGED authVars
    \/ \E e \in Errors : SubmitUpdateProcess(e) /\ UNCHANGED authVars
    \/ SubmitUpdateDone /\ UNCHANGED authVars

\* the form alone: every input, validation, and the submit that follows
NextForm ==
    \/ \E s \in {Null} \cup {Some(x) : x \in PageSessions} : PageAuthStateChange(s)
    \/ \E l \in loads, e \in Errors : LoadProcess(l, e) /\ UNCHANGED authVars
    \/ \E l \in loads : LoadDone(l) /\ UNCHANGED authVars
    \/ \E f \in FormInputs : EditForm(f) /\ UNCHANGED authVars
    \/ HandleSubmit /\ UNCHANGED authVars
    \/ \E e \in Errors : SubmitUpdateProcess(e) /\ UNCHANGED authVars
    \/ SubmitUpdateDone /\ UNCHANGED authVars

NextAuth ==
    \/ (\E s \in {Null} \cup {Some(x) : x \in Sessions} : AuthStateChange(s)) /\ UNCHANGED pageVars
    \/ (\E s \in {Null} \cup {Some(x) : x \in Sessions} : GetSessionResult(s)) /\ UNCHANGED pageVars
    \/ (\E u \in Users : FetchProfileStart(u)) /\ UNCHANGED pageVars
    \/ (\E u \in Users, e \in Errors : FetchProfileDone(u, e)) /\ UNCHANGED pageVars
    \/ (SignOut) /\ UNCHANGED pageVars
    \/ (\E e \in Errors : SignOutDone(e)) /\ UNCHANGED pageVars
    \/ (\E op \in AuthOps : AuthInvoke(op)) /\ UNCHANGED pageVars
    \/ (\E r \in SignUpResults : SignUpDone(r)) /\ UNCHANGED pageVars
    \/ (\E e \in Errors : SignInDone(e)) /\ UNCHANGED pageVars
    \/ (\E e \in {Null} \cup {Some(m) : m \in ResendErrors} : ResendConfirmationDone(e)) /\ UNCHANGED pageVars

Init ==
    /\ InitAuth
    /\ InitPage
    /\ lastCall = Call("none", Null, NoToast, Null)

SpecAuth == Init /\ [][NextAuth]_vars
SpecPage == Init /\ [][NextPage]_vars
SpecForm == Init /\ [][NextForm]_vars

\* the backend answers every request and the event loop runs every
\* continuation; onSubmit's continuation is never held back for good by the
\* limit on loads in flight
PageFairness ==
    /\ WF_vars((\E l \in loads, e \in Errors : LoadProcess(l, e)) /\ UNCHANGED authVars)
    /\ WF_vars((\E l \in loads : LoadDone(l)) /\ UNCHANGED authVars)
    /\ WF_vars((\E e \in Errors : LogoUploadDone(e)) /\ UNCHANGED authVars)
    /\ WF_vars((\E e \in Errors : LogoUpdateProcess(e)) /\ UNCHANGED authVars)
    /\ WF_vars(LogoUpdateDone /\ UNCHANGED authVars)
    /\ WF_vars((\E e \in Errors : SubmitUpdateProcess(e)) /\ UNCHANGED authVars)
    /\ SF_vars(SubmitUpdateDone /\ UNCHANGED authVars)

\* the page of a user whose companies row was never created: the page has
\* no insert, so every load answers null and every update matches no row
InitNoCompany == Init /\ companies["u1"] = Null

SpecPageFair == InitNoCompany /\ [][NextPage]_vars /\ PageFairness

\* ------------------------------------------------------------------ claims

\* C1: any non-null local profile belongs to the current user: profile # null
\* implies user # null and profile.user_id = user.id, in every reachable state
\* of AuthProvider.
C1_ProfileBelongsToUser ==
    profile # Null => user # Null /\ Get(profile).user_id = Get(user).id

\* C2: user is null exactly when session is null, and with a session the user
\* is that session's user.
C2_UserSessionConsistent ==
    /\ user = Null <=> session = Null
    /\ session # Null => user = Some(Get(session).user)

\* a notification has replaced the session of u2 by a session of u1
C2_Witness ==
    /\ lastCall.call = "onAuthStateChange"
    /\ session # Null /\ user # Null
    /\ ~signOutPending /\ ~getSessionPending
    /\ "u2" \in fetchTimers /\ Get(user).id = "u1"

\* C3: right after an auth-state notification or the getSession result has
\* delivered a session whose user metadata carries a role, the profile is the
\* temporary profile {id: '', user_id, role}; and the step in which a
\* fetchProfile for a user returns a row without error makes that row the
\* profile.
C3_TemporaryProfileFallback ==
    /\ [](/\ lastCall.call \in {"onAuthStateChange", "getSession"}
          /\ session # Null
          /\ Get(session).user.role # NoRole
          => profile = Some([id |-> "", user_id |-> Get(session).user.id,
                             role |-> Get(session).user.role]))
    /\ [][\A u \in Users :
            /\ u \in fetching
            /\ fetching' = fetching \ {u}
            /\ lastCall'.call = "fetchProfile"
            /\ lastCall'.error = Null
            /\ ProfilesTable[u] # Null
            => profile' = ProfilesTable[u]]_vars

\* the database row has replaced the temporary profile of the signed-in user
C3_Witness ==
    /\ lastCall.call = "fetchProfile" /\ lastCall.error = Null
    /\ user # Null /\ Get(user).role # NoRole
    /\ profile = ProfilesTable[Get(user).id]
    /\ Get(profile).id # ""

\* C4: every error returned by a backend call is caught and leads to a
\* user-facing notification.
C4_ErrorsAreNotified ==
    lastCall.error # Null => Len(lastCall.toasts) >= 1

\* the step in which the backend applies the update sent by handleLogoChange
LogoApplied ==
    logoOp.phase = "updating" /\ logoOp'.phase = "updated" /\ logoOp'.error = Null
\* the step in which the backend applies the update sent by onSubmit
SubmitApplied ==
    submitOp.phase = "updating" /\ submitOp'.phase = "updated" /\ submitOp'.error = Null
\* no row appears or disappears and the given columns keep their values
SameOn(cols) ==
    \A i \in DOMAIN companies :
        /\ companies'[i] = Null <=> companies[i] = Null
        /\ companies[i] # Null =>
             \A c \in cols : Get(companies'[i])[c] = Get(companies[i])[c]

\* C5: a logo change keeps the existing company data: the logo update leaves
\* name, contact_email, description and sector of the stored record as they
\* were; only logo_url changes.
C5_LogoChangeKeepsData ==
    [][LogoApplied => SameOn({"name", "contact_email", "description", "sector"})]_vars

\* C6: a form submit never changes the stored logo_url.
C6_SubmitKeepsLogo ==
    [][SubmitApplied => SameOn({"logo_url"})]_vars

\* C7: whenever onSubmit emits 'Perfil actualizado', the backend holds a
\* company record of the submitting user with the submitted name and
\* contact_email, and the submitted description and sector with '' as null.
C7_SubmitStoresRecord ==
    [][/\ submitOp.phase = "updated"
       /\ submitOp.error = Null
       /\ submitOp'.phase = "idle"
       => LET r == SelectCompany(companies', submitOp.uid)
              d == Get(submitOp.data)
          IN  /\ r # Null
              /\ Get(r).name = Some(d.name)
              /\ Get(r).contact_email = Some(d.contact_email)
              /\ Get(r).description = (IF d.description = "" THEN Null
                                       ELSE Some(d.description))
              /\ Get(r).sector = (IF d.sector = "" THEN Null ELSE Some(d.sector))]_vars

\* the requests a step sends to the companies table
LogoUpdateSent == logoOp.phase = "uploading" /\ logoOp'.phase = "updating"
SubmitUpdateSent == submitOp.phase = "idle" /\ submitOp'.phase = "updating"
LoadsSent == {l \in loads' \ loads : l.phase = "sent"}

\* C8 as stated: every read and update of the companies table is keyed on the
\* id of the user signed in when it is issued, and writes that id as user_id.
C8_KeyedOnCurrentUser ==
    [][/\ LogoUpdateSent =>
            /\ user' # Null
            /\ logoOp'.req.key = Get(user').id
            /\ logoOp'.req.user_id = Get(user').id
       /\ SubmitUpdateSent =>
            /\ user' # Null
            /\ submitOp'.req.key = Get(user').id
            /\ submitOp'.req.user_id = Get(user').id
       /\ \A l \in LoadsSent : user' # Null /\ l.uid = Get(user').id]_vars

\* C8 amended: every read and update of the companies table is keyed on the
\* id of the user who was signed in when its handler was invoked, the user_id
\* written is that same id, and a step changes no record of another owner.
C8_KeyedOnInvokingUser ==
    /\ [](\A op \in {logoOp, submitOp} :
            op.phase \in {"updating", "updated"} =>
                op.req.key = op.uid /\ op.req.user_id = op.uid)
    /\ [][/\ logoOp.phase = "idle" /\ logoOp'.phase = "uploading" =>
               user # Null /\ logoOp'.uid = Get(user).id
          /\ SubmitUpdateSent => user # Null /\ submitOp'.uid = Get(user).id
          /\ \A l \in LoadsSent :
               \/ user' # user /\ user' # Null /\ l.uid = Get(user').id
               \/ submitOp.phase = "updated" /\ l.uid = submitOp.uid
          /\ companies' # companies =>
               \E op \in {logoOp, submitOp} :
                   /\ op.phase = "updating"
                   /\ \A i \in DOMAIN companies :
                        companies'[i] # companies[i] =>
                            /\ companies[i] # Null /\ companies'[i] # Null
                            /\ Get(companies[i]).user_id = op.uid
                            /\ Get(companies'[i]).user_id = op.uid]_vars

\* a logo update sent after sign-out has changed its owner's record and left
\* the other user's record as it was
C8_Witness ==
    /\ user = Null
    /\ logoOp.phase = "updated" /\ logoOp.error = Null
    /\ companies["u1"] # Null /\ Get(companies["u1"]).logo_url # Null
    /\ companies["u2"] # Null /\ Get(companies["u2"]).logo_url = Null

\* a step in which handleSubmit ran the resolver
SubmitAttempt == formErrors' # formErrors \/ SubmitUpdateSent

\* C9: a submission reaches onSubmit, and with a signed-in user issues the
\* companies update, if and only if the name has at least 2 characters and
\* the contact email is valid; a rejected one makes no backend call;
\* description and sector may be empty.
C9_ValidationGatesUpdate ==
    [][SubmitAttempt =>
         LET ok == Len(form.name) >= 2 /\ IsEmail(form.contact_email)
         IN  /\ SubmitUpdateSent => ok /\ submitOp'.data = Some(form)
             /\ ok => formErrors' = {}
             /\ ok /\ user # Null => SubmitUpdateSent
             /\ ~ok => /\ formErrors' # {}
                       /\ submitOp' = submitOp
                       /\ loads' = loads
                       /\ companies' = companies
                       /\ pageLoading' = pageLoading]_vars

\* a two-character name with a valid email and empty description and sector
\* has been accepted and its update sent
C9_Witness ==
    /\ submitOp.phase = "updating"
    /\ Len(Get(submitOp.data).name) = 2
    /\ Get(submitOp.data).description = ""
    /\ Get(submitOp.data).sector = ""
    /\ formErrors = {}
    /\ pageLoading

\* C10: signUp, signIn and resendConfirmation issue one backend auth call per
\* invocation and leave user, session, profile and loading alone; user,
\* session and profile change only in an auth-state notification, the
\* getSession result, a fetchProfile completion or signOut.
C10_AuthOpsArePassThrough ==
    /\ [](authCalls = invoked)
    /\ [][/\ authPending' # authPending =>
               UNCHANGED <<user, session, profile, loading>>
          /\ <<user, session, profile>>' # <<user, session, profile>> =>
               /\ authPending' = authPending
               /\ lastCall'.call \in {"onAuthStateChange", "getSession",
                                      "fetchProfile", "signOut"}]_vars

\* a failed signIn has returned while a user with a profile was signed in
C10_Witness ==
    /\ lastCall.call = "signIn" /\ lastCall.error # Null
    /\ user # Null /\ session # Null /\ profile # Null
    /\ loading = FALSE
    /\ authCalls = 1

\* C11: once signOut has resolved, user, session and profile are null, and
\* the profile stays null until an auth-state notification or the getSession
\* result delivers a session, whatever profile fetch was deferred or in
\* flight when signOut was called.
C11_ProfileStaysNullAfterSignOut ==
    /\ [](lastCall.call = "signOut" =>
            user = Null /\ session = Null /\ profile = Null)
    /\ [][lastCall.call = "signOut" /\ profile' # Null =>
            /\ lastCall'.call \in {"onAuthStateChange", "getSession"}
            /\ session' # Null]_vars

\* the steps in which handleLogoChange or onSubmit handles a failed backend call
LogoUploadFailed == logoOp.phase = "uploading" /\ logoOp'.phase = "idle"
LogoUpdateFailed ==
    logoOp.phase = "updated" /\ logoOp.error # Null /\ logoOp'.phase = "idle"
SubmitUpdateFailed ==
    submitOp.phase = "updated" /\ submitOp.error # Null /\ submitOp'.phase = "idle"

\* C12: when the storage upload or the companies update of handleLogoChange,
\* or the companies update of onSubmit, returns an error, the invocation
\* sends nothing further (no upload, update or reload), leaves the local
\* company profile as it was and emits exactly one destructive notification.
C12_NoRetryOnFailure ==
    [][LogoUploadFailed \/ LogoUpdateFailed \/ SubmitUpdateFailed =>
            /\ loads' = loads
            /\ companies' = companies
            /\ uploads' = uploads
            /\ companyProfile' = companyProfile
            /\ LogoUploadFailed \/ LogoUpdateFailed =>
                 logoOp' = IdleOp /\ submitOp' = submitOp
            /\ SubmitUpdateFailed => submitOp' = IdleOp /\ logoOp' = logoOp
            /\ lastCall'.error # Null
            /\ lastCall'.toasts = <<[title |-> "Error", variant |-> "destructive"]>>]_vars

\* a failed submit has been handled with the loaded profile in place
C12_Witness ==
    /\ lastCall.call = "submit" /\ lastCall.error # Null
    /\ submitOp.phase = "idle" /\ ~pageLoading
    /\ companyProfile # Null
    /\ loads = {}

\* C13: in the step in which handleLogoChange emits 'Logo actualizado', the
\* local profile has logo_url equal to the public URL just written to the
\* user's record, also when the local profile was null.
C13_LocalLogoUpdated ==
    [][/\ logoOp.phase = "updated"
       /\ logoOp.error = Null
       /\ logoOp'.phase = "idle"
       /\ SelectCompany(companies, logoOp.uid) # Null
       /\ Get(SelectCompany(companies, logoOp.uid)).logo_url = logoOp.url
       => /\ lastCall'.toasts = <<[title |-> "Logo actualizado", variant |-> "default"]>>
          /\ companyProfile' # Null
          /\ Get(companyProfile').logo_url = logoOp.url]_vars

\* no page operation is in flight
PageQuiet ==
    loads = {} /\ logoOp.phase = "idle" /\ submitOp.phase = "idle"

\* C14: once the reload started by a successful submit has returned and no
\* page operation is in flight any more, the local company profile equals
\* the user's record stored in the backend.
C14_ReloadedProfileMatchesBackend ==
    /\ lastCall.call = "reloadProfile"
    /\ lastCall.error = Null
    /\ PageQuiet
    /\ user # Null
    /\ SelectCompany(companies, Get(user).id) # Null
    => companyProfile = SelectCompany(companies, Get(user).id)

\* C15: signUp emits exactly one notification and its result matches it: on
\* a backend error 'Error en el registro' and that error; on a user without
\* a session 'Email ya registrado' and a new error; otherwise the success
\* notification and error null. Success never comes with a non-null error.
C15_SignUpResultMatchesToast ==
    lastCall.call = "signUp" =>
        LET existing == lastCall.data.user /\ ~lastCall.data.session
        IN  /\ Len(lastCall.toasts) = 1
            /\ lastCall.ret # Null <=> (lastCall.error # Null \/ existing)
            /\ lastCall.error # Null =>
                 /\ lastCall.toasts[1].title = "Error en el registro"
                 /\ lastCall.ret = lastCall.error
            /\ lastCall.error = Null /\ existing =>
                 /\ lastCall.toasts[1].title = "Email ya registrado"
                 /\ lastCall.ret = {<<"Email ya registrado">>}
            /\ lastCall.error = Null /\ ~existing =>
                 /\ lastCall.toasts[1].title = "Registro exitoso"
                 /\ lastCall.ret = Null
            /\ lastCall.toasts[1].title = "Registro exitoso" => lastCall.ret = Null

\* signUp has answered an already registered email
C15_Witness ==
    /\ lastCall.call = "signUp"
    /\ lastCall.error = Null
    /\ lastCall.data = [user |-> TRUE, session |-> FALSE]
    /\ lastCall.ret # Null
    /\ "signUp" \notin authPending

\* the backend error message names rate limiting
RateLimited(error) ==
    \E i \in 1..Len(Get(error)) :
        Get(error)[i] \in {"For security purposes", "rate limit"}

\* C16: resendConfirmation emits exactly one notification: for an error whose
\* message contains 'For security purposes' or 'rate limit' the
\* non-destructive 'Espera un momento', for any other error the destructive
\* 'Error al reenviar', in both cases returning the backend error; with no
\* error 'Email reenviado' and error null.
C16_ResendHandlesRateLimit ==
    lastCall.call = "resend" =>
        /\ Len(lastCall.toasts) = 1
        /\ lastCall.ret = lastCall.error
        /\ lastCall.error # Null /\ RateLimited(lastCall.error) =>
             lastCall.toasts[1] = [title |-> "Espera un momento", variant |-> "default"]
        /\ lastCall.error # Null /\ ~RateLimited(lastCall.error) =>
             lastCall.toasts[1] = [title |-> "Error al reenviar", variant |-> "destructive"]
        /\ lastCall.error = Null =>
             lastCall.toasts[1] = [title |-> "Email reenviado", variant |-> "default"]

\* a resend has been refused with the 'For security purposes' message
C16_Witness ==
    /\ lastCall.call = "resend"
    /\ lastCall.error # Null
    /\ Get(lastCall.error)[1] = "For security purposes"
    /\ lastCall.toasts[1].title = "Espera un momento"
    /\ "resend" \notin authPending

\* C17: uploading is true exactly while a handleLogoChange invocation is in
\* progress and the page's loading exactly while an onSubmit invocation is;
\* with a backend that answers every call, each is false again later,
\* whether the operation succeeded or failed.
C17_BusyFlagsReleased ==
    /\ [](uploading <=> logoOp.phase # "idle")
    /\ [](pageLoading <=> submitOp.phase # "idle")
    /\ uploading ~> ~uploading
    /\ pageLoading ~> ~pageLoading

\* both handlers are busy, and the logo update has failed
C17_Witness ==
    /\ uploading /\ pageLoading
    /\ logoOp.phase = "updated" /\ logoOp.error # Null
    /\ submitOp.phase = "updating"
====
